---- MODULE Spec2Model ----
(***************************************************************************)
(* Model of app.py: the construct catalog, stability_curve, compute_score  *)
(* and the command-line entry point main().                                *)
(*                                                                         *)
(* Python floats are modelled as signed fixed-point integers with SCALE    *)
(* units per 1.0 (six decimal places); every magnitude the model computes  *)
(* stays below 2^31 / SCALE.  Latency and sync inputs are integral         *)
(* millisecond values.                                                     *)
(***************************************************************************)
EXTENDS Integers, Sequences, FiniteSets, TLC

\* ------------------------------------------------------------ arithmetic

\* Fixed-point resolution of a float: 1.0 is SCALE units.
SCALE == 1000000

\* Half-width split used to multiply two fixed-point numbers in 32 bits.
HalfScale == 1000

\* a * b for fixed-point a, b >= 0, truncated to the resolution.
Mul(a, b) ==
    LET a1 == a \div HalfScale
        a0 == a % HalfScale
        b1 == b \div HalfScale
        b0 == b % HalfScale
    IN  a1 * b1 + ((a1 * b0 + a0 * b1 + ((a0 * b0) \div HalfScale)) \div HalfScale)

\* 1.0 / d for fixed-point d > 0 (long division of SCALE * SCALE by d).
RecipPos(d) ==
    LET q1 == (SCALE * 100) \div d
        r1 == (SCALE * 100) % d
        q2 == (r1 * 100) \div d
        r2 == (r1 * 100) % d
        q3 == (r2 * 100) \div d
    IN  q1 * 10000 + q2 * 100 + q3

\* 1.0 / d for fixed-point d # 0.
Recip(d) == IF d > 0 THEN RecipPos(d) ELSE 0 - RecipPos(0 - d)

\* e^(1/2) and e^(-1/2) in fixed point.
E_HALF == 1648721
E_MINUS_HALF == 606531

\* Below e^(-UnderflowHalves / 2) the fixed-point value is 0.
UnderflowHalves == 30

\* math.exp raises OverflowError above ln(DBL_MAX) = 709.78..., in hundredths.
ExpOverflowHundredths == 70978

\* e^(k/2) for an integer k.
RECURSIVE ExpHalves(_)
ExpHalves(k) ==
    IF k = 0 THEN SCALE
    ELSE IF k > 0 THEN Mul(ExpHalves(k - 1), E_HALF)
    ELSE IF k < 0 - UnderflowHalves THEN 0
    ELSE Mul(ExpHalves(k + 1), E_MINUS_HALF)

\* Sum of the Taylor terms term, term*x/i, term*x^2/(i(i+1)), ... of e^x.
RECURSIVE Taylor(_, _, _)
Taylor(x, term, i) ==
    IF term = 0 THEN 0 ELSE term + Taylor(x, Mul(term, x) \div i, i + 1)

\* math.exp(n / d) for integers n and d > 0: e^(k/2) * e^x with
\* n/d = k/2 + x and 0 <= x < 1/2.  The exception is the outcome "exc".
math_exp(n, d) ==
    IF n * 100 > ExpOverflowHundredths * d
    THEN [exc |-> "OverflowError", value |-> 0]
    ELSE LET k == (2 * n) \div d
             r == 2 * n - k * d
             x == (r * SCALE) \div (2 * d)
         IN  [exc |-> "none", value |-> Mul(ExpHalves(k), Taylor(x, SCALE, 1))]

\* max(0.0, min(1.0, v))
Clamp01(v) ==
    LET m == IF v < SCALE THEN v ELSE SCALE
    IN  IF m > 0 THEN m ELSE 0

\* round(v, 4) for v >= 0: the nearest multiple of 0.0001, ties to even,
\* expressed in units of 0.0001.
Round4(v) ==
    LET q == v \div 100
        r == v % 100
    IN  IF r > 50 THEN q + 1
        ELSE IF r < 50 THEN q
        ELSE IF q % 2 = 0 THEN q ELSE q + 1

\* --------------------------------------------------------------- catalog

\* The module-level dict CONSTRUCTS as built at import time.  The three
\* factors are fixed-point floats.
InitialConstructs ==
    [k \in {"aztec-zk", "zama-fhe", "soundness-lab"} |->
        CASE k = "aztec-zk" ->
               [key |-> "aztec-zk", name |-> "Aztec-Style zk Circuit",
                category |-> "zk privacy",
                baseline_security |-> 810000, privacy_factor |-> 940000,
                scalability_factor |-> 580000,
                description |-> "Circuit-focused private computation with encrypted state roots."]
          [] k = "zama-fhe" ->
               [key |-> "zama-fhe", name |-> "Zama FHE Compute Layer",
                category |-> "fhe compute",
                baseline_security |-> 890000, privacy_factor |-> 870000,
                scalability_factor |-> 420000,
                description |-> "Fully homomorphic encrypted computation woven into Web3 data models."]
          [] OTHER ->
               [key |-> "soundness-lab", name |-> "Soundness-Driven Formal Model",
                category |-> "formal verification",
                baseline_security |-> 970000, privacy_factor |-> 510000,
                scalability_factor |-> 720000,
                description |-> "Extremely rigorous models built from formal proofs and verified semantics."]]

\* A subscript that answers any key with the default entry, as
\* cat.get(key, cat["aztec-zk"]) would.
GetItemDefaulting(cat, key) ==
    [exc |-> "none",
     value |-> IF key \in DOMAIN cat THEN <<cat[key]>> ELSE <<cat["aztec-zk"]>>]

\* cat[key] on a dict: the entry, or KeyError when the key is absent.
GetItem(cat, key) ==
    IF key \in DOMAIN cat
    THEN [exc |-> "none", value |-> <<cat[key]>>]
    ELSE [exc |-> "KeyError", value |-> <<>>]

\* --------------------------------------------------------- stability_curve

LATENCY_DECAY_MS == 1500
SYNC_DECAY_MS == 800
THROUGHPUT_UNIT == 10000

\* throughput_term with the constant 1 of the denominator mistyped as 2.
ThroughputDenominatorTwo(throughput) ==
    2 * SCALE + throughput * (SCALE \div THROUGHPUT_UNIT)

\* 1 + throughput / 10000, exact at the fixed-point resolution.
ThroughputDenominator(throughput) ==
    SCALE + throughput * (SCALE \div THROUGHPUT_UNIT)

\* The return expression without its clamp.
AverageUnclamped(sum) == sum \div 3

\* max(0.0, min(1.0, sum / 3))
AverageClamped(sum) == Clamp01(sum \div 3)

\* stability_curve(latency_ms, sync_ms, throughput): the three terms are
\* evaluated in order and the first exception raised ends the call.
stability_curve(latency_ms, sync_ms, throughput) ==
    LET latency_term == math_exp(0 - latency_ms, LATENCY_DECAY_MS)
        sync_term == math_exp(0 - sync_ms, SYNC_DECAY_MS)
        denominator == ThroughputDenominator(throughput)
    IN  IF latency_term.exc # "none" THEN [exc |-> latency_term.exc, value |-> 0]
        ELSE IF sync_term.exc # "none" THEN [exc |-> sync_term.exc, value |-> 0]
        ELSE IF denominator = 0 THEN [exc |-> "ZeroDivisionError", value |-> 0]
        ELSE [exc |-> "none",
              value |-> AverageClamped(latency_term.value + sync_term.value
                                       + Recip(denominator))]

\* ----------------------------------------------------------- compute_score

\* The weighted sum with the scalability weight mistyped as 0.20.
WeightedBaseLowScalability(construct) ==
    Mul(construct.baseline_security, 400000)
    + Mul(construct.privacy_factor, 300000)
    + Mul(construct.scalability_factor, 200000)

\* baseline_security * 0.40 + privacy_factor * 0.30 + scalability_factor * 0.30
WeightedBase(construct) ==
    Mul(construct.baseline_security, 400000)
    + Mul(construct.privacy_factor, 300000)
    + Mul(construct.scalability_factor, 300000)

\* The feature bonuses with the FHE bonus subtracted instead of added.
FeatureBonusFheSubtracted(enable_commitments, enable_proofs, enable_fhe) ==
    (IF enable_commitments THEN 40000 ELSE 0)
    + (IF enable_proofs THEN 70000 ELSE 0)
    - (IF enable_fhe THEN 50000 ELSE 0)

\* The three "base += ..." statements.
FeatureBonus(enable_commitments, enable_proofs, enable_fhe) ==
    (IF enable_commitments THEN 40000 ELSE 0)
    + (IF enable_proofs THEN 70000 ELSE 0)
    + (IF enable_fhe THEN 50000 ELSE 0)

\* compute_score(...): the returned dict as "value" (a one-element sequence,
\* empty when the call raised), its local variables as "locals".
compute_score(construct, latency_ms, sync_ms, throughput, enable_commitments, enable_proofs, enable_fhe) ==
    LET base == WeightedBase(construct)
                + FeatureBonus(enable_commitments, enable_proofs, enable_fhe)
        stability == stability_curve(latency_ms, sync_ms, throughput)
        final == Clamp01(Mul(base, stability.value))
    IN  IF stability.exc # "none"
        THEN [exc |-> stability.exc, value |-> <<>>,
              locals |-> [base |-> base, stability |-> 0, final |-> 0]]
        ELSE [exc |-> "none",
              value |-> <<[construct |-> construct.key,
                           name |-> construct.name,
                           category |-> construct.category,
                           description |-> construct.description,
                           latencyMs |-> latency_ms,
                           syncMs |-> sync_ms,
                           throughput |-> throughput,
                           enableCommitments |-> enable_commitments,
                           enableProofs |-> enable_proofs,
                           enableFhe |-> enable_fhe,
                           stabilityMultiplier |-> Round4(stability.value),
                           finalScore |-> Round4(final)]>>,
              locals |-> [base |-> base, stability |-> stability.value,
                          final |-> final]]

\* -------------------------------------------------------------- inputs

\* Number of grid steps the numeric inputs take on each side of their centre.
MaxStep == 2

\* --latency values: the default, a value whose exponent overflows math.exp,
\* and a grid around 0.
LatencyInputs == {180, -1200000} \cup {750 * j : j \in (0 - MaxStep)..MaxStep}

\* --sync values, likewise.
SyncInputs == {950, -600000} \cup {400 * j : j \in (0 - MaxStep)..MaxStep}

\* --throughput values: the default, 0, and a grid around -10000, where the
\* denominator of throughput_term is zero.
ThroughputInputs ==
    {3000, 0} \cup {5000 * j - 10000 : j \in (0 - MaxStep)..MaxStep}

\* Values given to --construct.
ConstructTokens == DOMAIN InitialConstructs \cup {"unknown-key"}

\* A command line.  numeric_ok is FALSE when a token given to --latency,
\* --sync or --throughput is not a number.
CommandLines ==
    [construct : ConstructTokens, latency : LatencyInputs, sync : SyncInputs,
     throughput : ThroughputInputs, numeric_ok : BOOLEAN,
     commitments : BOOLEAN, proofs : BOOLEAN, fhe : BOOLEAN, json : BOOLEAN]

\* The defaults of parse_args.
DefaultCommandLine ==
    [construct |-> "aztec-zk", latency |-> 180, sync |-> 950,
     throughput |-> 3000, numeric_ok |-> TRUE, commitments |-> FALSE,
     proofs |-> FALSE, fhe |-> FALSE, json |-> FALSE]

NoLocals == [base |-> 0, stability |-> 0, final |-> 0]

\* ---------------------------------------------------------------- state

VARIABLES
    CONSTRUCTS,   \* the module-level catalog dict
    pc,           \* position: idle, parse_args, lookup, compute_score, print,
                  \*           exited (process ended), returned (direct call ended)
    entry,        \* what was invoked: main, compute_score, lookup (or none)
    argv,         \* the command line, or the arguments of a direct call
    args,         \* the parsed Namespace: <<>> or <<namespace>>
    construct,    \* the looked-up profile: <<>> or <<profile>>
    result,       \* the dict compute_score returned: <<>> or <<dict>>
    frame,        \* the locals of the last compute_score call
    calls,        \* number of compute_score calls started in this invocation
    stdout,       \* what was printed, in order
    exc,          \* the exception that ended the invocation, or none
    failed_in,    \* the function that raised it, or none
    exit_code     \* process exit status, -1 while running

vars == <<CONSTRUCTS, pc, entry, argv, args, construct, result, frame, calls,
          stdout, exc, failed_in, exit_code>>

Init ==
    /\ CONSTRUCTS = InitialConstructs
    /\ pc = "idle"
    /\ entry = "none"
    /\ argv = DefaultCommandLine
    /\ args = <<>>
    /\ construct = <<>>
    /\ result = <<>>
    /\ frame = NoLocals
    /\ calls = 0
    /\ stdout = <<>>
    /\ exc = "none"
    /\ failed_in = "none"
    /\ exit_code = -1

\* ----------------------------------------------------------------- main

\* The program is started with some command line.
Invoke ==
    /\ pc = "idle"
    /\ \E a \in CommandLines : argv' = a
    /\ pc' = "parse_args"
    /\ entry' = "main"
    /\ UNCHANGED <<CONSTRUCTS, args, construct, result, frame, calls, stdout,
                   exc, failed_in, exit_code>>

\* A choices check that accepts every token.
ChoicesAcceptAny(cat, token) == TRUE

\* choices=list(CONSTRUCTS.keys())
ChoicesAccept(cat, token) == token \in DOMAIN cat

\* parse_args rejects the command line: argparse prints usage and exits 2.
ParseArgsReject ==
    /\ pc = "parse_args"
    /\ ~(ChoicesAccept(CONSTRUCTS, argv.construct) /\ argv.numeric_ok)
    /\ pc' = "exited"
    /\ exc' = "SystemExit"
    /\ failed_in' = "parse_args"
    /\ exit_code' = 2
    /\ UNCHANGED <<CONSTRUCTS, entry, argv, args, construct, result, frame,
                   calls, stdout>>

\* parse_args returns the Namespace.
ParseArgsAccept ==
    /\ pc = "parse_args"
    /\ ChoicesAccept(CONSTRUCTS, argv.construct)
    /\ argv.numeric_ok
    /\ args' = <<[construct |-> argv.construct, latency |-> argv.latency,
                  sync |-> argv.sync, throughput |-> argv.throughput,
                  commitments |-> argv.commitments, proofs |-> argv.proofs,
                  fhe |-> argv.fhe, json |-> argv.json]>>
    /\ pc' = "lookup"
    /\ UNCHANGED <<CONSTRUCTS, entry, argv, construct, result, frame, calls,
                   stdout, exc, failed_in, exit_code>>

\* construct = CONSTRUCTS[args.construct]; an uncaught exception ends the
\* process with status 1.
MainLookup ==
    /\ pc = "lookup"
    /\ LET got == GetItem(CONSTRUCTS, args[1].construct)
       IN  IF got.exc = "none"
           THEN /\ construct' = got.value
                /\ pc' = "compute_score"
                /\ UNCHANGED <<exc, failed_in, exit_code>>
           ELSE /\ pc' = "exited"
                /\ exc' = got.exc
                /\ failed_in' = "lookup"
                /\ exit_code' = 1
                /\ UNCHANGED construct
    /\ UNCHANGED <<CONSTRUCTS, entry, argv, args, result, frame, calls, stdout>>

\* result = compute_score(...), with the call also storing its base score
\* into the profile it was given.
MainComputeScoreStoring ==
    /\ pc = "compute_score"
    /\ LET a == args[1]
           got == compute_score(construct[1], a.latency, a.sync, a.throughput,
                                a.commitments, a.proofs, a.fhe)
       IN  /\ calls' = calls + 1
           /\ frame' = got.locals
           /\ result' = got.value
           /\ CONSTRUCTS' = [CONSTRUCTS EXCEPT
                               ![a.construct].baseline_security = got.locals.base]
           /\ IF got.exc = "none"
              THEN /\ pc' = "print"
                   /\ UNCHANGED <<exc, failed_in, exit_code>>
              ELSE /\ pc' = "exited"
                   /\ exc' = got.exc
                   /\ failed_in' = "compute_score"
                   /\ exit_code' = 1
    /\ UNCHANGED <<entry, argv, args, construct, stdout>>

\* result = compute_score(...); an uncaught exception ends the process with
\* status 1.
MainComputeScore ==
    /\ pc = "compute_score"
    /\ LET a == args[1]
           got == compute_score(construct[1], a.latency, a.sync, a.throughput,
                                a.commitments, a.proofs, a.fhe)
       IN  /\ calls' = calls + 1
           /\ frame' = got.locals
           /\ result' = got.value
           /\ IF got.exc = "none"
              THEN /\ pc' = "print"
                   /\ UNCHANGED <<exc, failed_in, exit_code>>
              ELSE /\ pc' = "exited"
                   /\ exc' = got.exc
                   /\ failed_in' = "compute_score"
                   /\ exit_code' = 1
    /\ UNCHANGED <<CONSTRUCTS, entry, argv, args, construct, stdout>>

\* print(json.dumps(result, indent=2)) or print_human(result); main returns.
MainPrint ==
    /\ pc = "print"
    /\ stdout' = Append(stdout,
                        [format |-> IF args[1].json THEN "json" ELSE "text",
                         body |-> result[1]])
    /\ pc' = "exited"
    /\ exit_code' = 0
    /\ UNCHANGED <<CONSTRUCTS, entry, argv, args, construct, result, frame,
                   calls, exc, failed_in>>

\* ----------------------------------------------------------- direct use

\* CONSTRUCTS[key] evaluated by an importer of the module.
DirectLookup ==
    /\ pc = "idle"
    /\ \E key \in ConstructTokens :
         LET got == GetItem(CONSTRUCTS, key)
         IN  /\ construct' = got.value
             /\ exc' = got.exc
             /\ failed_in' = IF got.exc = "none" THEN "none" ELSE "lookup"
             /\ argv' = [DefaultCommandLine EXCEPT !.construct = key]
    /\ entry' = "lookup"
    /\ pc' = "returned"
    /\ UNCHANGED <<CONSTRUCTS, args, result, frame, calls, stdout, exit_code>>

\* compute_score called by an importer of the module on a catalog entry,
\* with the numeric arguments and flags of a command line (numeric_ok and
\* json play no part in the call and are held fixed).
DirectComputeScore ==
    /\ pc = "idle"
    /\ \E a \in CommandLines :
         /\ a.construct \in DOMAIN CONSTRUCTS
         /\ a.numeric_ok
         /\ ~a.json
         /\ LET got == compute_score(CONSTRUCTS[a.construct], a.latency,
                                     a.sync, a.throughput, a.commitments,
                                     a.proofs, a.fhe)
            IN  /\ calls' = calls + 1
                /\ frame' = got.locals
                /\ result' = got.value
                /\ exc' = got.exc
                /\ failed_in' = IF got.exc = "none" THEN "none"
                                ELSE "compute_score"
         /\ construct' = <<CONSTRUCTS[a.construct]>>
         /\ argv' = a
    /\ entry' = "compute_score"
    /\ pc' = "returned"
    /\ UNCHANGED <<CONSTRUCTS, args, stdout, exit_code>>

\* The process has ended, or the direct call has returned: the next
\* invocation starts from the state the module has after import, with the
\* catalog object as it is.
Finish ==
    /\ pc \in {"exited", "returned"}
    /\ pc' = "idle"
    /\ entry' = "none"
    /\ argv' = DefaultCommandLine
    /\ args' = <<>>
    /\ construct' = <<>>
    /\ result' = <<>>
    /\ frame' = NoLocals
    /\ calls' = 0
    /\ stdout' = <<>>
    /\ exc' = "none"
    /\ failed_in' = "none"
    /\ exit_code' = -1
    /\ UNCHANGED CONSTRUCTS

Next ==
    \/ Invoke
    \/ ParseArgsReject
    \/ ParseArgsAccept
    \/ MainLookup
    \/ MainComputeScore
    \/ MainPrint
    \/ DirectLookup
    \/ DirectComputeScore
    \/ Finish

Spec == Init /\ [][Next]_vars

\* --------------------------------------------------------------- claims

\* A compute_score call has been made in this invocation and has returned.
Returned == calls > 0 /\ exc = "none"

\* The attributes of a profile in hundredths.
Hundredths(v) == v \div 10000

\* C1: whenever compute_score returns a result, the value stability_curve
\* returned lies in [0, 1], and so do the stabilityMultiplier and the
\* finalScore of the result (which are in units of 0.0001).
ScoresWithinUnitInterval ==
    Returned =>
        /\ 0 <= frame.stability /\ frame.stability <= SCALE
        /\ 0 <= result[1].stabilityMultiplier
        /\ result[1].stabilityMultiplier <= 10000
        /\ 0 <= result[1].finalScore
        /\ result[1].finalScore <= 10000

\* C1 witness: a result for a throughput below -10000, whose throughput term
\* is negative, with the clamp holding the multiplier at 0.
NegativeTermClampedWitness ==
    /\ Returned
    /\ argv.throughput < -10000
    /\ result[1].stabilityMultiplier = 0

\* C2: stability_curve, and therefore compute_score, never raises: every
\* call that was made returned a value.
ComputeScoreNeverRaises ==
    calls > 0 => /\ exc = "none"
                 /\ result # <<>>

\* C3: every finished run of the program either succeeded and printed
\* exactly one result, or failed before compute_score was called.
RunSucceedsOrFailsBeforeComputing ==
    (entry = "main" /\ pc = "exited") =>
        \/ exit_code = 0 /\ Len(stdout) = 1
        \/ exit_code # 0 /\ calls = 0 /\ stdout = <<>>

\* C4: a --construct value that is not a catalog key is rejected by
\* parse_args with a non-zero exit status: compute_score is never called
\* and nothing is printed.
UnknownConstructRejectedAtParsing ==
    (entry = "main" /\ argv.construct \notin DOMAIN InitialConstructs) =>
        /\ pc \in {"parse_args", "exited"}
        /\ calls = 0
        /\ stdout = <<>>
        /\ args = <<>>
        /\ pc = "exited" => /\ failed_in = "parse_args"
                            /\ exit_code = 2

\* C4 witness: the run of an unknown key has ended.
UnknownConstructRejectedWitness ==
    /\ entry = "main"
    /\ argv.construct = "unknown-key"
    /\ argv.numeric_ok
    /\ pc = "exited"

\* C5 as stated: a direct lookup of an absent key fails with an
\* UnknownConstruct error, and a lookup of a present key returns its profile.
LookupRaisesUnknownConstruct ==
    (entry = "lookup" /\ pc = "returned") =>
        IF argv.construct \in DOMAIN InitialConstructs
        THEN exc = "none" /\ construct = <<InitialConstructs[argv.construct]>>
        ELSE exc = "UnknownConstruct" /\ construct = <<>>

\* C5 as amended: a direct lookup of an absent key fails with the dict's
\* KeyError, and a lookup of a present key returns the profile whose key it
\* is.
LookupRaisesKeyError ==
    (entry = "lookup" /\ pc = "returned") =>
        IF argv.construct \in DOMAIN InitialConstructs
        THEN /\ exc = "none"
             /\ construct = <<InitialConstructs[argv.construct]>>
             /\ construct[1].key = argv.construct
        ELSE exc = "KeyError" /\ construct = <<>>

\* C5 witness: a direct lookup of an absent key has failed.
AbsentKeyLookupWitness ==
    /\ entry = "lookup"
    /\ pc = "returned"
    /\ argv.construct = "unknown-key"
    /\ exc # "none"

\* C6: stability_curve is non-increasing in each argument: when a call
\* returned, a call that differs by a larger latency, a larger sync or a
\* larger throughput returns, if it returns, a value that is no larger.
StabilityNonIncreasing ==
    Returned =>
        /\ \A l \in LatencyInputs :
             LET other == stability_curve(l, argv.sync, argv.throughput)
             IN  (l > argv.latency /\ other.exc = "none")
                     => other.value <= frame.stability
        /\ \A y \in SyncInputs :
             LET other == stability_curve(argv.latency, y, argv.throughput)
             IN  (y > argv.sync /\ other.exc = "none")
                     => other.value <= frame.stability
        /\ \A t \in ThroughputInputs :
             LET other == stability_curve(argv.latency, argv.sync, t)
             IN  (t > argv.throughput /\ other.exc = "none")
                     => other.value <= frame.stability

\* C7: the finalScore returned with any of the flags enabled is at least
\* the finalScore the same construct and runtime inputs yield with all
\* three flags disabled.
FlagsNeverDecreaseFinalScore ==
    Returned =>
        LET off == compute_score(construct[1], argv.latency, argv.sync,
                                 argv.throughput, FALSE, FALSE, FALSE)
        IN  /\ off.exc = "none"
            /\ result[1].finalScore >= off.value[1].finalScore

\* C7 witness: a result with the FHE flag alone enabled that is strictly
\* above the result with no flag.
FlagRaisesFinalScoreWitness ==
    /\ Returned
    /\ argv.fhe /\ ~argv.commitments /\ ~argv.proofs
    /\ result[1].finalScore >
         compute_score(construct[1], argv.latency, argv.sync,
                       argv.throughput, FALSE, FALSE, FALSE).value[1].finalScore

\* C8: stability_curve(0, 0, 0) returns exactly 1.0.
StabilityAtOriginIsOne ==
    (calls > 0 /\ argv.latency = 0 /\ argv.sync = 0 /\ argv.throughput = 0) =>
        /\ exc = "none"
        /\ frame.stability = SCALE
        /\ result[1].stabilityMultiplier = 10000

\* C8 witness: compute_score has been called with latency = sync =
\* throughput = 0.
OriginCallWitness ==
    /\ calls > 0
    /\ argv.latency = 0 /\ argv.sync = 0 /\ argv.throughput = 0
    /\ frame.stability = SCALE

\* C9: with latency = sync = throughput = 0 the finalScore, in units of
\* 0.0001, is 40 * baselineSecurity + 30 * privacyFactor + 30 *
\* scalabilityFactor (factors in hundredths) plus 400 for commitments, 700
\* for proofs and 500 for fhe; for soundness-lab without flags it is 7570.
FinalScoreAtOriginIsBase ==
    (calls > 0 /\ argv.latency = 0 /\ argv.sync = 0 /\ argv.throughput = 0) =>
        LET c == InitialConstructs[argv.construct]
        IN  /\ result # <<>>
            /\ result[1].finalScore =
                   40 * Hundredths(c.baseline_security)
                   + 30 * Hundredths(c.privacy_factor)
                   + 30 * Hundredths(c.scalability_factor)
                   + (IF argv.commitments THEN 400 ELSE 0)
                   + (IF argv.proofs THEN 700 ELSE 0)
                   + (IF argv.fhe THEN 500 ELSE 0)
            /\ (argv.construct = "soundness-lab" /\ ~argv.commitments
                /\ ~argv.proofs /\ ~argv.fhe) => result[1].finalScore = 7570

\* C9 witness: the program printed 0.757 for soundness-lab at the origin
\* with no flag.
SoundnessLabAtOriginWitness ==
    /\ entry = "main"
    /\ pc = "exited"
    /\ argv.construct = "soundness-lab"
    /\ argv.latency = 0 /\ argv.sync = 0 /\ argv.throughput = 0
    /\ ~argv.commitments /\ ~argv.proofs /\ ~argv.fhe
    /\ Len(stdout) = 1
    /\ stdout[1].body.finalScore = 7570

\* C10: the catalog always holds exactly the three keys aztec-zk, zama-fhe
\* and soundness-lab with the attribute values it was built with, whatever
\* compute_score calls and program runs have taken place.
CatalogNeverMutated ==
    /\ DOMAIN CONSTRUCTS = {"aztec-zk", "zama-fhe", "soundness-lab"}
    /\ CONSTRUCTS = InitialConstructs

\* C10 witness: a program run has called compute_score and printed its
\* result.
RunCompletedWitness ==
    /\ entry = "main"
    /\ pc = "exited"
    /\ calls = 1
    /\ exit_code = 0

====
